---- MODULE Spec2Model ----
(***************************************************************************)
(* pgtracer: the EventHandler session cache of ebpf/collector.py and the   *)
(* Query entity of model/query.py (construction, merge, plan-tree          *)
(* building by stack walk).                                                *)
(*                                                                         *)
(* Python objects are modelled by value:                                   *)
(*   - a Query object is an index into the sequence `queries` (its         *)
(*     identity) and the record stored there (its attributes);             *)
(*   - a PlanState is an entry of its Query's `nodes` map, keyed by        *)
(*     address; parent_node / children hold addresses of that same map;    *)
(*   - an Optional value is None (the empty tuple) or Some(v) == <<v>>;    *)
(*   - a str is the sequence of its code points, a bytes value the         *)
(*     sequence of its bytes.                                              *)
(***************************************************************************)
EXTENDS Integers, Sequences, FiniteSets, TLC

VARIABLES
    query_cache,      \* EventHandler.query_cache: portal key -> Query identity
    query_history,    \* EventHandler.query_history: list of Query identities
    last_portal_key,  \* EventHandler.last_portal_key: Optional portal key
    queries,          \* the Query objects created so far, by identity
    event,            \* Optional: the event the callback handled in the last
                      \* step; None when that step was no callback
    raised,           \* the exception that left the last step, or NoException
    script            \* the events of the end-to-end scenario delivered so far

vars ==
    <<query_cache, query_history, last_portal_key, queries, event, raised,
      script>>

(***************************************************************************)
(* Bounds                                                                  *)
(***************************************************************************)
MaxQueries == 2        \* Query objects created in one behaviour
MaxCounter == 1        \* elapsed counters are 0..MaxCounter microseconds
MaxAddr == 3           \* plan-node addresses are 1..MaxAddr

None == << >>
Some(v) == <<v>>

\* the empty dict
EmptyDict == [k \in {} |-> 0]

NoException == "none"

\* dict[key] = value
SetItem(dict, key, value) ==
    [k \in DOMAIN dict \cup {key} |-> IF k = key THEN value ELSE dict[k]]

\* del dict[key]
DelItem(dict, key) == [k \in DOMAIN dict \ {key} |-> dict[k]]

(***************************************************************************)
(* EventType and the ctypes structures                                     *)
(***************************************************************************)
ExecutorStart == 1
ExecutorFinish == 2
DropPortalEnter == 3
DropPortalReturn == 4

EventType == {ExecutorStart, ExecutorFinish, DropPortalEnter, DropPortalReturn}

\* discriminants that are no member of EventType
UnknownTypes == {0, 5}

\* the one traced process
Pid == 7

\* portal_key.as_tuple
as_tuple(portal_key) == <<portal_key.pid, portal_key.creation_time>>

\* the portals of the traced process: two creation times, one of them zero
PortalKeys == [pid : {Pid}, creation_time : {0, 1}]

\* Reading a c_char array field of a ctypes Structure gives the bytes before
\* the first NUL.
RECURSIVE c_char_array(_)
c_char_array(buf) ==
    IF buf = << >> \/ Head(buf) = 0 THEN << >>
    ELSE <<Head(buf)>> \o c_char_array(Tail(buf))

\* bytes.decode("utf8"), strict, for one- and two-byte sequences: the result
\* is [ok |-> TRUE, str |-> code points] or [ok |-> FALSE] when
\* UnicodeDecodeError is raised.  Buffers are drawn from bytes below 0xE0.
RECURSIVE decode(_)
decode(bytes) ==
    IF bytes = << >> THEN [ok |-> TRUE, str |-> << >>]
    ELSE LET b == Head(bytes) IN
         IF b < 128
         THEN LET rest == decode(Tail(bytes)) IN
              IF rest.ok THEN [ok |-> TRUE, str |-> <<b>> \o rest.str]
              ELSE [ok |-> FALSE, str |-> << >>]
         ELSE IF /\ b >= 194 /\ b <= 223 /\ Len(bytes) >= 2
                 /\ bytes[2] >= 128 /\ bytes[2] <= 191
         THEN LET rest == decode(Tail(Tail(bytes))) IN
              IF rest.ok
              THEN [ok |-> TRUE,
                    str |-> <<(b - 192) * 64 + (bytes[2] - 128)>> \o rest.str]
              ELSE [ok |-> FALSE, str |-> << >>]
         ELSE [ok |-> FALSE, str |-> << >>]

\* metadata.structs.Instrumentation(addr): the snapshot parsed from the
\* event's instrumentation sub-structure
Instrumentation(bytes) == [running |-> bytes.running, counter |-> bytes.counter]

NsPerUs == 1000

\* utils.timespec_to_timedelta: a nanosecond counter as a duration in
\* microseconds
timespec_to_timedelta(counter) == counter \div NsPerUs

(***************************************************************************)
(* Query (model/query.py)                                                  *)
(***************************************************************************)
\* Query.__init__
Query(startts, text, instrument, search_path) ==
    [startts |-> startts, text |-> text, instrument |-> instrument,
     search_path |-> search_path, nodes |-> EmptyDict]

\* Query.from_event: [exc, query]; query is None when the call raised
from_event(ev) ==
    LET instrument == Instrumentation(ev.instrument)
        sp_bytes == c_char_array(ev.search_path)
        sp == decode(sp_bytes)
        text == decode(c_char_array(ev.query))
    IN  IF sp_bytes # << >> /\ ~sp.ok
        THEN [exc |-> "UnicodeDecodeError", query |-> None]
        ELSE IF ~text.ok
        THEN [exc |-> "UnicodeDecodeError", query |-> None]
        ELSE [exc |-> NoException,
              query |-> Some(Query(ev.portal_key.creation_time,
                                   text.str,
                                   instrument,
                                   IF sp_bytes # << >> THEN Some(sp.str)
                                                       ELSE None))]

\* the instrumentation step of Query.update without `if instrument.running:`
update_instrument_Always(self, ev) ==
    [self EXCEPT !.instrument = Instrumentation(ev.instrument)]

\* the instrumentation step of Query.update with the test inverted
update_instrument_Stopped(self, ev) ==
    LET instrument == Instrumentation(ev.instrument) IN
    IF ~instrument.running THEN [self EXCEPT !.instrument = instrument]
    ELSE self

\* Query.update, the instrumentation: a snapshot is stored only if it is
\* running
update_instrument(self, ev) ==
    LET instrument == Instrumentation(ev.instrument) IN
    IF instrument.running THEN [self EXCEPT !.instrument = instrument]
    ELSE self

\* the field steps of Query.update with the text assigned without
\* `or self.text`
update_fields_Overwrite(self, ev) ==
    LET s2 == [self EXCEPT !.startts =
                  IF ev.portal_key.creation_time # 0
                  THEN ev.portal_key.creation_time ELSE self.startts]
        text == decode(c_char_array(ev.query))
        s3 == [s2 EXCEPT !.text = text.str]
        sp == decode(c_char_array(ev.search_path))
        s4 == [s3 EXCEPT !.search_path =
                  IF sp.str # << >> THEN Some(sp.str) ELSE s3.search_path]
    IN  IF ~text.ok THEN [exc |-> "UnicodeDecodeError", query |-> s2]
        ELSE IF ~sp.ok THEN [exc |-> "UnicodeDecodeError", query |-> s3]
        ELSE [exc |-> NoException, query |-> s4]

\* Query.update, the fields after the instrumentation: startts, text and
\* search_path in this order, each `new or old`; [exc, query], where query
\* is the object as the call left it, the assignments made before a raise
\* included
update_fields(self, ev) ==
    LET s2 == [self EXCEPT !.startts =
                  IF ev.portal_key.creation_time # 0
                  THEN ev.portal_key.creation_time ELSE self.startts]
        text == decode(c_char_array(ev.query))
        s3 == [s2 EXCEPT !.text =
                  IF text.str # << >> THEN text.str ELSE s2.text]
        sp == decode(c_char_array(ev.search_path))
        s4 == [s3 EXCEPT !.search_path =
                  IF sp.str # << >> THEN Some(sp.str) ELSE s3.search_path]
    IN  IF ~text.ok THEN [exc |-> "UnicodeDecodeError", query |-> s2]
        ELSE IF ~sp.ok THEN [exc |-> "UnicodeDecodeError", query |-> s3]
        ELSE [exc |-> NoException, query |-> s4]

\* Query.update
update(self, ev) == update_fields(update_instrument(self, ev), ev)

\* Query.runtime
runtime(self) == timespec_to_timedelta(self.instrument.counter)

(***************************************************************************)
(* Plan tree (model/query.py, model/plan.py, ebpf/unwind.py)               *)
(***************************************************************************)
ExecutorFunctions ==
    {"ExecProcNodeFirst", "ExecProcNodeInstr", "ExecProcNode", "ExecAgg",
     "ExecAppend", "ExecBitmapAnd", "ExecBitmapHeapScan",
     "ExecBitmapIndexScan", "ExecBitmapOr", "ExecCteScan",
     "ExecCustomScan", "ExecForeignScan", "ExecFunctionScan", "ExecGather",
     "ExecGatherMerge", "ExecGroup", "ExecHash", "ExecHashJoin",
     "ExecIncrementalSort", "ExecIndexOnlyScan", "ExecIndexScan",
     "ExecLimit", "ExecLockRows", "ExecMaterial", "ExecMemoize",
     "ExecMergeAppend", "ExecMergeJoin", "ExecModifyTable",
     "ExecNamedTuplestoreScan", "ExecNestLoop", "ExecProjectSet",
     "ExecRecursiveUnion", "ExecResult", "ExecSampleScan", "ExecSeqScan",
     "ExecSetOp", "ExecSort", "ExecSubqueryScan", "ExecTableFuncScan",
     "ExecTidRangeScan", "ExecTidScan", "ExecUnique", "ExecValuesScan",
     "ExecWindowAgg", "ExecWorkTableScan", "MultiExecHash",
     "MultiExecBitmapIndexScan", "MultiExecBitmapAnd", "MultiExecBitmapOr"}

\* plan-executor function name -> position of the argument that carries the
\* plan node
FUNCTION_ARGS_MAPPING == [name \in ExecutorFunctions |-> 1]

\* PlanState.__init__: a placeholder without parent or children
PlanState(addr) ==
    [parent_node |-> None, children |-> {}, is_stub |-> TRUE,
     instrument |-> None]

\* PlanState.update: the node-local instrumentation of the event
PlanState_update(self, ev) ==
    [self EXCEPT !.instrument = Some(Instrumentation(ev.instrument))]

\* UnwindAddressSpace(stack_capture, metadata).frames(): the frames of the
\* capture, innermost first
frames(stack_capture) == stack_capture

\* Frame.fetch_arg(argnum, ct.c_ulonglong).value
fetch_arg(frame, argnum) == frame.args[argnum]

\* the loop without `parent_node.children.add(cur_node)`
RECURSIVE walk_NoChild(_, _, _, _)
walk_NoChild(nodes, cur_node, stack, idx) ==
    IF idx >= Len(stack) THEN nodes
    ELSE LET frame == stack[idx + 1] IN
         IF idx = 0 THEN walk_NoChild(nodes, cur_node, stack, idx + 1)
         ELSE IF frame.function_name \in DOMAIN FUNCTION_ARGS_MAPPING
         THEN LET argnum == FUNCTION_ARGS_MAPPING[frame.function_name]
                  parent_addr == fetch_arg(frame, argnum)
              IN  IF parent_addr = cur_node
                  THEN walk_NoChild(nodes, cur_node, stack, idx + 1)
                  ELSE LET n1 == IF parent_addr \in DOMAIN nodes THEN nodes
                                 ELSE SetItem(nodes, parent_addr,
                                              PlanState(parent_addr))
                           n2 == [n1 EXCEPT ![cur_node].parent_node =
                                                Some(parent_addr)]
                       IN  IF ~n2[parent_addr].is_stub THEN n2
                           ELSE walk_NoChild(n2, parent_addr, stack, idx + 1)
         ELSE walk_NoChild(nodes, cur_node, stack, idx + 1)

\* the loop without `if parent_addr == cur_node.addr: continue`
RECURSIVE walk_SelfLink(_, _, _, _)
walk_SelfLink(nodes, cur_node, stack, idx) ==
    IF idx >= Len(stack) THEN nodes
    ELSE LET frame == stack[idx + 1] IN
         IF idx = 0 THEN walk_SelfLink(nodes, cur_node, stack, idx + 1)
         ELSE IF frame.function_name \in DOMAIN FUNCTION_ARGS_MAPPING
         THEN LET argnum == FUNCTION_ARGS_MAPPING[frame.function_name]
                  parent_addr == fetch_arg(frame, argnum)
                  n1 == IF parent_addr \in DOMAIN nodes THEN nodes
                        ELSE SetItem(nodes, parent_addr,
                                     PlanState(parent_addr))
                  n2 == [n1 EXCEPT ![cur_node].parent_node =
                                       Some(parent_addr)]
                  n3 == [n2 EXCEPT ![parent_addr].children =
                                       @ \cup {cur_node}]
              IN  IF ~n3[parent_addr].is_stub THEN n3
                  ELSE walk_SelfLink(n3, parent_addr, stack, idx + 1)
         ELSE walk_SelfLink(nodes, cur_node, stack, idx + 1)

\* the loop without `if not parent_node.is_stub: break`
RECURSIVE walk_NoStop(_, _, _, _)
walk_NoStop(nodes, cur_node, stack, idx) ==
    IF idx >= Len(stack) THEN nodes
    ELSE LET frame == stack[idx + 1] IN
         IF idx = 0 THEN walk_NoStop(nodes, cur_node, stack, idx + 1)
         ELSE IF frame.function_name \in DOMAIN FUNCTION_ARGS_MAPPING
         THEN LET argnum == FUNCTION_ARGS_MAPPING[frame.function_name]
                  parent_addr == fetch_arg(frame, argnum)
              IN  IF parent_addr = cur_node
                  THEN walk_NoStop(nodes, cur_node, stack, idx + 1)
                  ELSE LET n1 == IF parent_addr \in DOMAIN nodes THEN nodes
                                 ELSE SetItem(nodes, parent_addr,
                                              PlanState(parent_addr))
                           n2 == [n1 EXCEPT ![cur_node].parent_node =
                                                Some(parent_addr)]
                           n3 == [n2 EXCEPT ![parent_addr].children =
                                                @ \cup {cur_node}]
                       IN  walk_NoStop(n3, parent_addr, stack, idx + 1)
         ELSE walk_NoStop(nodes, cur_node, stack, idx + 1)

\* the loop without `if idx == 0: continue`
RECURSIVE walk_UsesFrame0(_, _, _, _)
walk_UsesFrame0(nodes, cur_node, stack, idx) ==
    IF idx >= Len(stack) THEN nodes
    ELSE LET frame == stack[idx + 1] IN
         IF frame.function_name \in DOMAIN FUNCTION_ARGS_MAPPING
         THEN LET argnum == FUNCTION_ARGS_MAPPING[frame.function_name]
                  parent_addr == fetch_arg(frame, argnum)
              IN  IF parent_addr = cur_node
                  THEN walk_UsesFrame0(nodes, cur_node, stack, idx + 1)
                  ELSE LET n1 == IF parent_addr \in DOMAIN nodes THEN nodes
                                 ELSE SetItem(nodes, parent_addr,
                                              PlanState(parent_addr))
                           n2 == [n1 EXCEPT ![cur_node].parent_node =
                                                Some(parent_addr)]
                           n3 == [n2 EXCEPT ![parent_addr].children =
                                                @ \cup {cur_node}]
                       IN  IF ~n3[parent_addr].is_stub THEN n3
                           ELSE walk_UsesFrame0(n3, parent_addr, stack,
                                                idx + 1)
         ELSE walk_UsesFrame0(nodes, cur_node, stack, idx + 1)

\* the loop of Query.add_node_from_event from frame idx on (idx counts from
\* 0); the result is the node map when the loop ends
RECURSIVE walk(_, _, _, _)
walk(nodes, cur_node, stack, idx) ==
    IF idx >= Len(stack) THEN nodes
    ELSE LET frame == stack[idx + 1] IN
         IF idx = 0 THEN walk(nodes, cur_node, stack, idx + 1)
         ELSE IF frame.function_name \in DOMAIN FUNCTION_ARGS_MAPPING
         THEN LET argnum == FUNCTION_ARGS_MAPPING[frame.function_name]
                  parent_addr == fetch_arg(frame, argnum)
              IN  IF parent_addr = cur_node
                  THEN walk(nodes, cur_node, stack, idx + 1)
                  ELSE LET n1 == IF parent_addr \in DOMAIN nodes THEN nodes
                                 ELSE SetItem(nodes, parent_addr,
                                              PlanState(parent_addr))
                           n2 == [n1 EXCEPT ![cur_node].parent_node =
                                                Some(parent_addr)]
                           n3 == [n2 EXCEPT ![parent_addr].children =
                                                @ \cup {cur_node}]
                       IN  IF ~n3[parent_addr].is_stub THEN n3
                           ELSE walk(n3, parent_addr, stack, idx + 1)
         ELSE walk(nodes, cur_node, stack, idx + 1)

\* add_node_from_event without `if not planstate.is_stub: return planstate`
add_node_from_event_Rewalk(self, ev) ==
    LET addr == ev.planstate_addr
        n0 == IF addr \in DOMAIN self.nodes THEN self.nodes
              ELSE SetItem(self.nodes, addr, PlanState(addr))
        n1 == [n0 EXCEPT ![addr] = PlanState_update(@, ev)]
    IN  [self EXCEPT !.nodes =
            [walk(n1, addr, frames(ev.stack_capture), 0)
                 EXCEPT ![addr].is_stub = FALSE]]

\* Query.add_node_from_event: the Query as the call leaves it
add_node_from_event(self, ev) ==
    LET addr == ev.planstate_addr
        n0 == IF addr \in DOMAIN self.nodes THEN self.nodes
              ELSE SetItem(self.nodes, addr, PlanState(addr))
        n1 == [n0 EXCEPT ![addr] = PlanState_update(@, ev)]
    IN  IF ~n1[addr].is_stub THEN [self EXCEPT !.nodes = n1]
        ELSE [self EXCEPT !.nodes =
                 [walk(n1, addr, frames(ev.stack_capture), 0)
                      EXCEPT ![addr].is_stub = FALSE]]

\* the nodes of the Query without a parent (root_candidates)
root_candidates(self) ==
    {addr \in DOMAIN self.nodes : self.nodes[addr].parent_node = None}

\* the property returning a candidate whenever there is one
root_node_First(self) ==
    IF root_candidates(self) = {}
    THEN [exc |-> "ValueError", node |-> None, self |-> self]
    ELSE [exc |-> NoException,
          node |-> Some(CHOOSE addr \in root_candidates(self) : TRUE),
          self |-> self]

\* Query.root_node: the exception raised, the node returned (by its
\* address) and the Query as the read leaves it
root_node(self) ==
    IF Cardinality(root_candidates(self)) # 1
    THEN [exc |-> "ValueError", node |-> None, self |-> self]
    ELSE [exc |-> NoException,
          node |-> Some(CHOOSE addr \in root_candidates(self) : TRUE),
          self |-> self]

(***************************************************************************)
(* EventHandler (ebpf/collector.py)                                        *)
(***************************************************************************)
\* EventHandler.__init__
Init ==
    /\ query_cache = EmptyDict
    /\ query_history = << >>
    /\ last_portal_key = None
    /\ queries = << >>
    /\ event = None
    /\ raised = NoException
    /\ script = << >>

handle_ExecutorStart(ev) ==
    LET key == as_tuple(ev.portal_key) IN
    IF key \notin DOMAIN query_cache
    THEN LET r == from_event(ev) IN
         IF r.exc # NoException
         THEN /\ raised' = r.exc
              /\ UNCHANGED <<query_cache, query_history, last_portal_key,
                             queries>>
         ELSE /\ queries' = Append(queries, r.query[1])
              /\ query_cache' = SetItem(query_cache, key, Len(queries) + 1)
              /\ raised' = NoException
              /\ UNCHANGED <<query_history, last_portal_key>>
    ELSE LET r == update(queries[query_cache[key]], ev) IN
         /\ queries' = [queries EXCEPT ![query_cache[key]] = r.query]
         /\ raised' = r.exc
         /\ UNCHANGED <<query_cache, query_history, last_portal_key>>

\* handle_ExecutorFinish with the body of handle_ExecutorStart
handle_ExecutorFinish_Creates(ev) == handle_ExecutorStart(ev)

handle_ExecutorFinish(ev) ==
    LET key == as_tuple(ev.portal_key) IN
    IF key \in DOMAIN query_cache
    THEN LET r == update(queries[query_cache[key]], ev) IN
         /\ queries' = [queries EXCEPT ![query_cache[key]] = r.query]
         /\ raised' = r.exc
         /\ UNCHANGED <<query_cache, query_history, last_portal_key>>
    ELSE /\ raised' = NoException
         /\ UNCHANGED <<query_cache, query_history, last_portal_key, queries>>

\* handle_DropPortalEnter keeping a pending key that is already set
handle_DropPortalEnter_KeepFirst(ev) ==
    LET key == as_tuple(ev.portal_key) IN
    /\ last_portal_key' = IF last_portal_key = None THEN Some(key)
                          ELSE last_portal_key
    /\ IF key \in DOMAIN query_cache
       THEN LET r == update(queries[query_cache[key]], ev) IN
            /\ queries' = [queries EXCEPT ![query_cache[key]] = r.query]
            /\ raised' = r.exc
       ELSE /\ raised' = NoException
            /\ UNCHANGED queries
    /\ UNCHANGED <<query_cache, query_history>>

handle_DropPortalEnter(ev) ==
    LET key == as_tuple(ev.portal_key) IN
    /\ last_portal_key' = Some(key)
    /\ IF key \in DOMAIN query_cache
       THEN LET r == update(queries[query_cache[key]], ev) IN
            /\ queries' = [queries EXCEPT ![query_cache[key]] = r.query]
            /\ raised' = r.exc
       ELSE /\ raised' = NoException
            /\ UNCHANGED queries
    /\ UNCHANGED <<query_cache, query_history>>

\* handle_DropPortalReturn without `del self.query_cache[...]`
handle_DropPortalReturn_NoDel(ev) ==
    /\ raised' = NoException
    /\ UNCHANGED <<queries, query_cache>>
    /\ IF last_portal_key # None
       THEN /\ IF last_portal_key[1] \in DOMAIN query_cache
               THEN query_history' =
                        Append(query_history, query_cache[last_portal_key[1]])
               ELSE UNCHANGED query_history
            /\ last_portal_key' = None
       ELSE UNCHANGED <<query_history, last_portal_key>>

\* handle_DropPortalReturn with `self.last_portal_key = None` inside the
\* inner if
handle_DropPortalReturn_KeepPending(ev) ==
    /\ raised' = NoException
    /\ UNCHANGED queries
    /\ IF last_portal_key # None /\ last_portal_key[1] \in DOMAIN query_cache
       THEN /\ query_history' =
                   Append(query_history, query_cache[last_portal_key[1]])
            /\ query_cache' = DelItem(query_cache, last_portal_key[1])
            /\ last_portal_key' = None
       ELSE UNCHANGED <<query_cache, query_history, last_portal_key>>

handle_DropPortalReturn(ev) ==
    /\ raised' = NoException
    /\ UNCHANGED queries
    /\ IF last_portal_key # None
       THEN /\ IF last_portal_key[1] \in DOMAIN query_cache
               THEN /\ query_history' =
                         Append(query_history, query_cache[last_portal_key[1]])
                    /\ query_cache' = DelItem(query_cache, last_portal_key[1])
               ELSE UNCHANGED <<query_cache, query_history>>
            /\ last_portal_key' = None
       ELSE UNCHANGED <<query_cache, query_history, last_portal_key>>

\* handle_event that takes a value outside EventType for DropPortalReturn
handle_event_NoValueError(ev) ==
    CASE ev.event_type = ExecutorStart -> handle_ExecutorStart(ev)
      [] ev.event_type = ExecutorFinish -> handle_ExecutorFinish(ev)
      [] ev.event_type = DropPortalEnter -> handle_DropPortalEnter(ev)
      [] OTHER -> handle_DropPortalReturn(ev)

\* EventHandler.handle_event: EventType(event_type) raises ValueError for a
\* value that is no member; otherwise the handler named after the member runs
handle_event(ev) ==
    IF ev.event_type \notin EventType
    THEN /\ raised' = "ValueError"
         /\ UNCHANGED <<query_cache, query_history, last_portal_key, queries>>
    ELSE CASE ev.event_type = ExecutorStart -> handle_ExecutorStart(ev)
           [] ev.event_type = ExecutorFinish -> handle_ExecutorFinish(ev)
           [] ev.event_type = DropPortalEnter -> handle_DropPortalEnter(ev)
           [] ev.event_type = DropPortalReturn -> handle_DropPortalReturn(ev)

\* BPF_Collector._handle_event, the ring-buffer callback: one event is handed
\* to the EventHandler; an exception leaves the callback and the next event
\* is delivered by the next call
BPF_Collector_handle_event(ev) ==
    /\ event' = Some(ev)
    /\ handle_event(ev)

\* the report written into the node map of every Query
Report_Shared(ev) ==
    /\ queries' = [q \in DOMAIN queries |->
                      [queries[q] EXCEPT !.nodes =
                          add_node_from_event(queries[ev.self], ev).nodes]]
    /\ event' = None
    /\ raised' = NoException
    /\ UNCHANGED <<query_cache, query_history, last_portal_key, script>>

\* a caller hands the report ev to Query.add_node_from_event of ev.self
Report(ev) ==
    /\ queries' = [queries EXCEPT ![ev.self] = add_node_from_event(@, ev)]
    /\ event' = None
    /\ raised' = NoException
    /\ UNCHANGED <<query_cache, query_history, last_portal_key, script>>

(***************************************************************************)
(* The event source: the payloads the ring buffer delivers                 *)
(***************************************************************************)
\* query-text / search-path buffers: empty, "A", "e-acute" (two bytes), and
\* a two-byte character cut after its first byte
Zeroed == <<0, 0>>
Buffers == {Zeroed, <<65, 0>>, <<195, 169>>, <<195, 0>>}

\* elapsed counters, in nanoseconds
Counters == {c * NsPerUs : c \in 0..MaxCounter}

Snapshots == [running : BOOLEAN, counter : Counters]

\* the payload of an event that carries no session data
ZeroedEvent(type) ==
    [event_type |-> type,
     portal_key |-> [pid |-> Pid, creation_time |-> 0],
     query |-> Zeroed,
     instrument |-> [running |-> FALSE, counter |-> 0],
     search_path |-> Zeroed]

\* session events of the lifecycle specification: every portal key, a valid
\* or an undecodable query text, a running or stopped snapshot with one of
\* two elapsed times
SessionEvents(type) ==
    [event_type : {type}, portal_key : PortalKeys,
     query : {<<65, 0>>, <<195, 0>>},
     instrument : [running : BOOLEAN, counter : {0, NsPerUs}],
     search_path : {Zeroed}]

\* BPF_Collector.poll: the ring buffer hands one event to the callback
Deliver(ev) == BPF_Collector_handle_event(ev) /\ UNCHANGED script

\* a new Query object may still be created
MayCreate(ev) ==
    \/ as_tuple(ev.portal_key) \in DOMAIN query_cache
    \/ Len(queries) < MaxQueries

SessionStart ==
    \E ev \in SessionEvents(ExecutorStart) :
        MayCreate(ev) /\ Deliver(ev)

SessionStep ==
    \E ev \in SessionEvents(ExecutorFinish) : Deliver(ev)

TeardownEnter ==
    \E ev \in SessionEvents(DropPortalEnter) : Deliver(ev)

TeardownReturn == Deliver(ZeroedEvent(DropPortalReturn))

UnknownEvent ==
    \E type \in UnknownTypes : Deliver(ZeroedEvent(type))

Next ==
    \/ SessionStart
    \/ SessionStep
    \/ TeardownEnter
    \/ TeardownReturn
    \/ UnknownEvent

Spec == Init /\ [][Next]_vars

(***************************************************************************)
(* The merge specification: one portal, which stays open, and every        *)
(* payload                                                                 *)
(***************************************************************************)
\* the portal of the merge and plan specifications
MergeKey == [pid |-> Pid, creation_time |-> 0]

MergeEvents(type) ==
    [event_type : {type}, portal_key : {MergeKey}, query : Buffers,
     instrument : Snapshots, search_path : Buffers]

MergeStart ==
    \E ev \in MergeEvents(ExecutorStart) : Deliver(ev)

MergeStep ==
    \E ev \in MergeEvents(ExecutorFinish) : Deliver(ev)

MergeEnter ==
    \E ev \in MergeEvents(DropPortalEnter) : Deliver(ev)

\* the open Query receives the plan-node report of one node
MergeNode ==
    /\ queries # << >>
    /\ Report([self |-> 1, planstate_addr |-> 1, stack_capture |-> << >>,
               instrument |-> [running |-> TRUE, counter |-> NsPerUs]])

NextMerge ==
    \/ MergeStart
    \/ MergeStep
    \/ MergeEnter
    \/ MergeNode

SpecMerge == Init /\ [][NextMerge]_vars

(***************************************************************************)
(* The end-to-end specification: a session start, the teardown of that     *)
(* session with a stopped snapshot, the return of the teardown; fields the *)
(* scenario does not name are empty                                        *)
(***************************************************************************)
Scripted(ev) ==
    /\ BPF_Collector_handle_event(ev)
    /\ script' = Append(script, ev)

\* the buffers that decode
Decodable == {buf \in Buffers : decode(c_char_array(buf)).ok}

E2EStart ==
    /\ script = << >>
    /\ \E ev \in [event_type : {ExecutorStart}, portal_key : PortalKeys,
                   query : Decodable, instrument : Snapshots,
                   search_path : Decodable] : Scripted(ev)

E2EEnter ==
    /\ Len(script) = 1
    /\ \E ev \in [event_type : {DropPortalEnter},
                   portal_key : {script[1].portal_key},
                   query : {Zeroed},
                   instrument : [running : {FALSE}, counter : Counters],
                   search_path : {Zeroed}] : Scripted(ev)

E2EReturn ==
    /\ Len(script) = 2
    /\ Scripted(ZeroedEvent(DropPortalReturn))

NextE2E ==
    \/ E2EStart
    \/ E2EEnter
    \/ E2EReturn

SpecE2E == Init /\ [][NextE2E]_vars

(***************************************************************************)
(* The plan specification: Query objects receive plan-node reports         *)
(***************************************************************************)
Addrs == 1..MaxAddr

\* a frame of a function of the table, for every node it may carry, and a
\* frame of a function that is not in the table
Frames ==
    [function_name : {"ExecAgg"}, args : {<<a>> : a \in Addrs}]
        \cup {[function_name |-> "standard_ExecutorRun", args |-> <<0>>]}

\* captures of no frame, of the reporting frame alone, and of one or two
\* frames above it
StackCaptures == UNION {[1..n -> Frames] : n \in {0, 1, 2, 3}}

\* a plan-node report and the Query that receives it
PlanEvents ==
    [self : 1..Len(queries), planstate_addr : Addrs,
     stack_capture : StackCaptures,
     instrument : {[running |-> TRUE, counter |-> NsPerUs]}]

\* the session event that opens a portal in the plan specification
PlanPortal(key) ==
    [event_type |-> ExecutorStart, portal_key |-> key, query |-> <<65, 0>>,
     instrument |-> [running |-> FALSE, counter |-> 0],
     search_path |-> Zeroed]

PlanStart ==
    /\ as_tuple(MergeKey) \notin DOMAIN query_cache
    /\ Deliver(PlanPortal(MergeKey))

PlanNodeReport == \E ev \in PlanEvents : Report(ev)

NextPlan ==
    \/ PlanStart
    \/ PlanNodeReport

SpecPlan == Init /\ [][NextPlan]_vars

\* Two teardowns that overlap: up to two session starts, then two
\* TeardownEnter events, then two TeardownReturn events
OverlapCount(type) ==
    Cardinality({i \in 1..Len(script) : script[i].event_type = type})

OverlapStart ==
    /\ OverlapCount(ExecutorStart) = Len(script)
    /\ Len(script) < 2
    /\ \E ev \in [event_type : {ExecutorStart}, portal_key : PortalKeys,
                   query : {<<65, 0>>, <<195, 0>>},
                   instrument : {[running |-> TRUE, counter |-> NsPerUs]},
                   search_path : {Zeroed}] :
          /\ as_tuple(ev.portal_key) \notin DOMAIN query_cache
          /\ Scripted(ev)

OverlapEnter ==
    /\ OverlapCount(DropPortalEnter) < 2
    /\ OverlapCount(DropPortalReturn) = 0
    /\ \E ev \in [event_type : {DropPortalEnter}, portal_key : PortalKeys,
                   query : {Zeroed, <<65, 0>>, <<195, 0>>},
                   instrument : [running : BOOLEAN, counter : {0}],
                   search_path : {Zeroed}] : Scripted(ev)

OverlapReturn ==
    /\ OverlapCount(DropPortalEnter) = 2
    /\ OverlapCount(DropPortalReturn) < 2
    /\ Scripted(ZeroedEvent(DropPortalReturn))

NextOverlap ==
    \/ OverlapStart
    \/ OverlapEnter
    \/ OverlapReturn

SpecOverlap == Init /\ [][NextOverlap]_vars

\* Reports for two Queries that use the same two addresses
ScopeAddrs == {1, 2}

ScopeFrames ==
    [function_name : {"ExecAgg"}, args : {<<a>> : a \in ScopeAddrs}]
        \cup {[function_name |-> "standard_ExecutorRun", args |-> <<0>>]}

ScopeCaptures == UNION {[1..n -> ScopeFrames] : n \in {0, 1, 2, 3}}

ScopeEvents ==
    [self : 1..Len(queries), planstate_addr : ScopeAddrs,
     stack_capture : ScopeCaptures,
     instrument : {[running |-> TRUE, counter |-> NsPerUs]}]

ScopeStart ==
    \E key \in PortalKeys :
        /\ as_tuple(key) \notin DOMAIN query_cache
        /\ Deliver(PlanPortal(key))

ScopeNodeReport == \E ev \in ScopeEvents : Report(ev)

NextScope ==
    \/ ScopeStart
    \/ ScopeNodeReport

SpecScope == Init /\ [][NextScope]_vars

(***************************************************************************)
(* Properties                                                              *)
(***************************************************************************)
\* the elements of a list
Range(seq) == {seq[i] : i \in 1..Len(seq)}

\* the Query a key of the cache stands for
Open(key) == queries[query_cache[key]]

\* C1: a teardown-return that finds its pending key in the cache appends
\* that key's Query, which is not in the history yet, at the end of the
\* history; no other step changes the history.  So every Query finalized by
\* a teardown-enter / teardown-return pair is in the history exactly once,
\* in the arrival order of the teardown-returns.
C1_FinalizedOnceInArrivalOrder ==
    [][IF /\ event'[1].event_type = DropPortalReturn
          /\ last_portal_key # None
          /\ last_portal_key[1] \in DOMAIN query_cache
       THEN /\ query_cache[last_portal_key[1]] \notin Range(query_history)
            /\ query_history' =
                   Append(query_history, query_cache[last_portal_key[1]])
       ELSE query_history' = query_history]_vars

\* C1 witness: two Queries were finalized, the second created first
C1_Witness ==
    /\ event # None
    /\ event[1].event_type = DropPortalReturn
    /\ last_portal_key = None
    /\ query_history = <<2, 1>>

\* the text and the snapshots of the end-to-end scenario
E2EText == decode(c_char_array(script[1].query)).str
E2EStartElapsed == timespec_to_timedelta(script[1].instrument.counter)
E2EEnterElapsed == timespec_to_timedelta(script[2].instrument.counter)

\* what the scenario leaves whatever the runtime is: one finalized Query with
\* the text of the session start, nothing open, nothing pending
E2ELeavesOneQuery ==
    /\ Len(query_history) = 1
    /\ queries[query_history[1]].text = E2EText
    /\ DOMAIN query_cache = {}
    /\ last_portal_key = None

SessionTypes == {ExecutorStart, ExecutorFinish, DropPortalEnter}

\* the event ev is a session event for the open key of the Query id
IsFor(ev, id) ==
    /\ ev.event_type \in SessionTypes
    /\ as_tuple(ev.portal_key) \in DOMAIN query_cache
    /\ query_cache[as_tuple(ev.portal_key)] = id

\* C3: a session event for an open key that carries a running=false
\* snapshot leaves a stored running=true snapshot as it is, and the stored
\* snapshot of a Query changes only in a step that handles a session event
\* for its open key whose snapshot is running, and then it is that snapshot.
C3_RunningSnapshotKept ==
    [][\A id \in 1..Len(queries) :
          /\ (/\ queries[id].instrument.running
              /\ IsFor(event'[1], id)
              /\ ~event'[1].instrument.running)
                 => queries'[id].instrument = queries[id].instrument
          /\ queries'[id].instrument # queries[id].instrument
                 => /\ IsFor(event'[1], id)
                    /\ event'[1].instrument.running
                    /\ queries'[id].instrument =
                           Instrumentation(event'[1].instrument)]_vars

\* C3 witness: a stopped snapshot with another elapsed value was handled for
\* an open key whose Query holds a running snapshot
C3_Witness ==
    /\ event # None
    /\ event[1].event_type = DropPortalEnter
    /\ ~event[1].instrument.running
    /\ as_tuple(event[1].portal_key) \in DOMAIN query_cache
    /\ Open(as_tuple(event[1].portal_key)).instrument.running
    /\ Open(as_tuple(event[1].portal_key)).instrument.counter
           # event[1].instrument.counter

\* an event whose fields are all empty or zero
AllZero(ev) ==
    /\ ev.portal_key.creation_time = 0
    /\ c_char_array(ev.query) = << >>
    /\ c_char_array(ev.search_path) = << >>
    /\ ~ev.instrument.running

\* C4: a session event for an open key whose query text and search path
\* are empty, whose creation time is zero and whose snapshot is not running
\* raises nothing and changes no attribute of any Query: startts, text,
\* search_path, instrument and the node map stay as they are.
C4_ZeroEventChangesNothing ==
    [][(/\ event' # None
        /\ event'[1].event_type \in SessionTypes
        /\ AllZero(event'[1])
        /\ as_tuple(event'[1].portal_key) \in DOMAIN query_cache)
           => /\ queries' = queries
              /\ raised' = NoException]_vars

\* C4 witness: an all-zero event was merged into a Query that has a text, a
\* search path, a running snapshot with another elapsed value, and a node
C4_Witness ==
    /\ event # None
    /\ event[1].event_type = ExecutorFinish
    /\ AllZero(event[1])
    /\ as_tuple(event[1].portal_key) \in DOMAIN query_cache
    /\ Open(as_tuple(event[1].portal_key)).text # << >>
    /\ Open(as_tuple(event[1].portal_key)).search_path # None
    /\ Open(as_tuple(event[1].portal_key)).instrument.running
    /\ Open(as_tuple(event[1].portal_key)).instrument.counter
           # event[1].instrument.counter
    /\ DOMAIN Open(as_tuple(event[1].portal_key)).nodes # {}

\* the text and the search path an event carries, decoded
CarriedText(ev) == decode(c_char_array(ev.query))
CarriedPath(ev) == decode(c_char_array(ev.search_path))

\* what the last-non-empty-value rule asks of the step that handles the
\* session event ev for key: each of text, search_path and startts of the
\* key's Query is the value ev carries for it when that value is not empty
\* (not zero), and the value the Query had when ev carries an empty one
KeepsLastNonEmpty(ev, key) ==
    LET new == queries'[query_cache'[key]] IN
    /\ (CarriedText(ev).ok /\ CarriedText(ev).str # << >>)
           => new.text = CarriedText(ev).str
    /\ (CarriedPath(ev).ok /\ CarriedPath(ev).str # << >>)
           => new.search_path = Some(CarriedPath(ev).str)
    /\ ev.portal_key.creation_time # 0
           => new.startts = ev.portal_key.creation_time
    /\ (key \in DOMAIN query_cache /\ c_char_array(ev.query) = << >>)
           => new.text = Open(key).text
    /\ (key \in DOMAIN query_cache /\ c_char_array(ev.search_path) = << >>)
           => new.search_path = Open(key).search_path

\* C5 as claimed: after every session event for a key that is open
\* afterwards, each of text, search_path and startts of the key's Query is
\* the last non-empty (non-zero) value carried for it, the constructing
\* event included; an empty value never replaces it.
C5_LastNonEmptyValueWins ==
    [][(/\ event' # None
        /\ event'[1].event_type \in SessionTypes
        /\ as_tuple(event'[1].portal_key) \in DOMAIN query_cache')
           => KeepsLastNonEmpty(event'[1], as_tuple(event'[1].portal_key))]_vars

\* the rule holds of every session event whose two buffers decode
LastNonEmptyValueWinsWhenDecodable ==
    [][(/\ event' # None
        /\ event'[1].event_type \in SessionTypes
        /\ as_tuple(event'[1].portal_key) \in DOMAIN query_cache'
        /\ CarriedText(event'[1]).ok
        /\ CarriedPath(event'[1]).ok)
           => KeepsLastNonEmpty(event'[1], as_tuple(event'[1].portal_key))]_vars

\* what a SessionStart is to do in the step that handles ev: insert a new
\* Query built from ev under a key that is not open; for an open key keep
\* the cache and the Query's identity and node map and merge the text.
\* Either way the history, the pending key and every other Query stay.
InsertsOrMerges(ev, key) ==
    /\ query_history' = query_history
    /\ last_portal_key' = last_portal_key
    /\ \A k \in DOMAIN query_cache \ {key} :
           /\ k \in DOMAIN query_cache'
           /\ query_cache'[k] = query_cache[k]
           /\ queries'[query_cache[k]] = Open(k)
    /\ \A i \in 1..Len(query_history) :
           queries'[query_history[i]] = queries[query_history[i]]
    /\ IF key \notin DOMAIN query_cache
       THEN /\ DOMAIN query_cache' = DOMAIN query_cache \cup {key}
            /\ query_cache'[key] = Len(queries) + 1
            /\ Len(queries') = Len(queries) + 1
            /\ queries'[Len(queries) + 1].startts =
                   ev.portal_key.creation_time
            /\ queries'[Len(queries) + 1].instrument =
                   Instrumentation(ev.instrument)
            /\ queries'[Len(queries) + 1].nodes = EmptyDict
       ELSE /\ query_cache' = query_cache
            /\ Len(queries') = Len(queries)
            /\ queries'[query_cache[key]].nodes = Open(key).nodes
            /\ CarriedText(ev).ok
                   => queries'[query_cache[key]].text =
                         IF CarriedText(ev).str # << >>
                         THEN CarriedText(ev).str ELSE Open(key).text

\* C6 as claimed: every SessionStart inserts a new Query for a key that is
\* not open and merges into the existing Query of an open key, and leaves
\* the history, the pending key and every other Query as they are.
C6_SessionStartInsertsOrMerges ==
    [][event'[1].event_type = ExecutorStart
          => InsertsOrMerges(event'[1], as_tuple(event'[1].portal_key))]_vars

\* it does so for every SessionStart whose two buffers decode
SessionStartInsertsOrMergesWhenDecodable ==
    [][(/\ event'[1].event_type = ExecutorStart
        /\ CarriedText(event'[1]).ok
        /\ CarriedPath(event'[1]).ok)
          => InsertsOrMerges(event'[1], as_tuple(event'[1].portal_key))]_vars

\* C7: a SessionStep for a key that is not in the cache raises nothing and
\* changes neither the cache, the history, the pending key nor any Query; a
\* TeardownEnter for such a key raises nothing, creates no Query and changes
\* neither the cache nor the history.
C7_UnknownKeyDropped ==
    [][(/\ event'[1].event_type \in {ExecutorFinish, DropPortalEnter}
        /\ as_tuple(event'[1].portal_key) \notin DOMAIN query_cache)
           => /\ raised' = NoException
              /\ UNCHANGED <<query_cache, query_history, queries>>
              /\ event'[1].event_type = ExecutorFinish
                     => UNCHANGED last_portal_key]_vars

\* C7 witness: a SessionStep with an undecodable text was handled for a key
\* that is not open, while another key is open and one is pending
C7_Witness ==
    /\ event # None
    /\ event[1].event_type = ExecutorFinish
    /\ ~CarriedText(event[1]).ok
    /\ as_tuple(event[1].portal_key) \notin DOMAIN query_cache
    /\ DOMAIN query_cache # {}
    /\ last_portal_key # None
    /\ raised = NoException

\* C8: a TeardownReturn leaves no pending key and changes no Query.  If no
\* key was pending or the pending key is not in the cache, the cache and
\* the history stay as they are; otherwise the cache loses exactly the
\* pending key and the history gains exactly that key's Query, at the end.
C8_TeardownReturnFrame ==
    [][event'[1].event_type = DropPortalReturn
          => /\ last_portal_key' = None
             /\ queries' = queries
             /\ raised' = NoException
             /\ IF last_portal_key = None
                   \/ last_portal_key[1] \notin DOMAIN query_cache
                THEN UNCHANGED <<query_cache, query_history>>
                ELSE /\ DOMAIN query_cache' =
                            DOMAIN query_cache \ {last_portal_key[1]}
                     /\ \A k \in DOMAIN query_cache' :
                            query_cache'[k] = query_cache[k]
                     /\ Len(query_history') = Len(query_history) + 1
                     /\ \A i \in 1..Len(query_history) :
                            query_history'[i] = query_history[i]
                     /\ query_history'[Len(query_history) + 1] =
                            query_cache[last_portal_key[1]]]_vars

\* C8 witness: a TeardownReturn has moved one Query to a history that held
\* one already
C8_Witness ==
    /\ event # None
    /\ event[1].event_type = DropPortalReturn
    /\ last_portal_key = None
    /\ Len(query_history) = 2
    /\ DOMAIN query_cache = {}

MappedArg(frame) ==
    fetch_arg(frame, FUNCTION_ARGS_MAPPING[frame.function_name])

\* the reports of parent inference that the Query q can receive next: for a
\* node that is not resolved, with a capture of the reporting frame and one
\* frame of a table function that carries another node
ParentReports(q) ==
    {[self |-> q, planstate_addr |-> A, stack_capture |-> <<f0, f1>>,
      instrument |-> [running |-> TRUE, counter |-> NsPerUs]] :
        A \in {a \in Addrs : \/ a \notin DOMAIN queries[q].nodes
                             \/ queries[q].nodes[a].is_stub},
        f0 \in Frames,
        f1 \in {f \in Frames :
                  f.function_name \in DOMAIN FUNCTION_ARGS_MAPPING}}

\* the node addr of the map nodes is resolved
Resolved(nodes, addr) == addr \in DOMAIN nodes /\ ~nodes[addr].is_stub

\* what the report ev of parent inference leaves in every case: the node is
\* resolved, its parent is the node P of the frame, P has it as a child
LinksToParent(new, A, P) ==
    /\ {A, P} \subseteq DOMAIN new
    /\ new[A].parent_node = Some(P)
    /\ A \in new[P].children
    /\ ~new[A].is_stub

\* a placeholder stays one under every report of another address
StubUntilOwnReport ==
    \A ev \in PlanEvents :
        LET old == queries[ev.self].nodes
            new == add_node_from_event(queries[ev.self], ev).nodes
        IN  \A p \in DOMAIN old \ {ev.planstate_addr} :
                old[p].is_stub => (p \in DOMAIN new /\ new[p].is_stub)

\* C10 as claimed: in every state, the report of parent inference for a
\* node A with the frame of P that the Query processes next leaves A
\* resolved with parent P, A among the children of P, and P a stub; and a
\* stub stays a stub until a report of its own address.
C10_ParentIsStub ==
    /\ \A q \in 1..Len(queries) : \A ev \in ParentReports(q) :
          LET A == ev.planstate_addr
              P == MappedArg(ev.stack_capture[2])
              new == add_node_from_event(queries[q], ev).nodes
          IN  P # A => /\ LinksToParent(new, A, P)
                       /\ new[P].is_stub
    /\ StubUntilOwnReport

\* C10 as amended: in every state, the report of parent inference for a
\* node A with the frame of P that the Query processes next leaves A
\* resolved with parent P and A among the children of P; P is a stub after
\* it unless P was resolved before it, and then P stays resolved; and a
\* stub stays a stub until a report of its own address.
C10_ParentIsStubUnlessResolved ==
    /\ \A q \in 1..Len(queries) : \A ev \in ParentReports(q) :
          LET A == ev.planstate_addr
              P == MappedArg(ev.stack_capture[2])
              old == queries[q].nodes
              new == add_node_from_event(queries[q], ev).nodes
          IN  P # A => /\ LinksToParent(new, A, P)
                       /\ new[P].is_stub = ~Resolved(old, P)
    /\ StubUntilOwnReport

\* C10 witness: a Query holds two nodes, a resolved one and its parent, a
\* placeholder that has this one child and no parent
C10_Witness ==
    \E q \in 1..Len(queries) : \E A, P \in Addrs :
        /\ A # P
        /\ DOMAIN queries[q].nodes = {A, P}
        /\ queries[q].nodes[A].parent_node = Some(P)
        /\ queries[q].nodes[A].children = {}
        /\ ~queries[q].nodes[A].is_stub
        /\ queries[q].nodes[A].instrument # None
        /\ queries[q].nodes[P] = PlanState(P)
           \/ queries[q].nodes[P] =
                  [PlanState(P) EXCEPT !.children = {A}]

\* a frame of a table function that carries the current node itself is
\* passed over: the loop from that frame on is the loop from the next one
SelfFrameSkipped ==
    \A q \in 1..Len(queries) : \A cur \in DOMAIN queries[q].nodes :
        \A stack \in StackCaptures : \A idx \in 1..(Len(stack) - 1) :
            (/\ stack[idx + 1].function_name \in DOMAIN FUNCTION_ARGS_MAPPING
             /\ MappedArg(stack[idx + 1]) = cur)
                => walk(queries[q].nodes, cur, stack, idx)
                      = walk(queries[q].nodes, cur, stack, idx + 1)

\* no node is its own parent or among its own children
NoSelfLink ==
    \A q \in 1..Len(queries) : \A n \in DOMAIN queries[q].nodes :
        /\ queries[q].nodes[n].parent_node # Some(n)
        /\ n \notin queries[q].nodes[n].children

\* C11: in the stack walk a frame of a table function whose mapped argument
\* is the current node's own address makes no link and the walk goes on with
\* the next frame and the same current node; so after every sequence of
\* reports no node is its own parent or in its own children.
C11_NoSelfParent == SelfFrameSkipped /\ NoSelfLink

\* C11 witness: a placeholder P with a resolved child can receive a report
\* whose capture names P itself and then another node G; the report makes G
\* the parent of P
C11_Witness ==
    \E q \in 1..Len(queries) : \E P \in DOMAIN queries[q].nodes :
      \E G \in Addrs \ {P} :
        LET ev == [self |-> q, planstate_addr |-> P,
                   stack_capture |->
                       <<[function_name |-> "standard_ExecutorRun",
                          args |-> <<0>>],
                         [function_name |-> "ExecAgg", args |-> <<P>>],
                         [function_name |-> "ExecAgg", args |-> <<G>>]>>,
                   instrument |-> [running |-> TRUE, counter |-> NsPerUs]]
            new == add_node_from_event(queries[q], ev).nodes
        IN  /\ ev \in PlanEvents
            /\ queries[q].nodes[P].is_stub
            /\ queries[q].nodes[P].children # {}
            /\ new[P].parent_node = Some(G)
            /\ P \in new[G].children
            /\ P \notin new[P].children

\* the parentless nodes of the Query q
Parentless(q) ==
    {n \in DOMAIN queries[q].nodes : queries[q].nodes[n].parent_node = None}

\* C12: read in any state, root_node returns the parentless node when there
\* is exactly one and fails when there is none (an empty node map included)
\* or more than one; the read leaves the Query as it is; and every report
\* is processed, without an exception, whatever the number of parentless
\* nodes.
C12_RootNodeLazy ==
    /\ [](\A q \in 1..Len(queries) :
            /\ root_node(queries[q]).self = queries[q]
            /\ Cardinality(Parentless(q)) = 1
                  => /\ root_node(queries[q]).exc = NoException
                     /\ root_node(queries[q]).node # None
                     /\ root_node(queries[q]).node[1] \in Parentless(q)
            /\ Cardinality(Parentless(q)) # 1
                  => /\ root_node(queries[q]).exc = "ValueError"
                     /\ root_node(queries[q]).node = None
            /\ ENABLED PlanNodeReport)
    /\ [][event' = None => raised' = NoException]_vars

\* C12 witness: reports were processed into a node map that has two
\* parentless nodes and a node below one of them, and root_node fails on it
C12_Witness ==
    \E q \in 1..Len(queries) :
        /\ Cardinality(Parentless(q)) = 2
        /\ Cardinality(DOMAIN queries[q].nodes) = 3
        /\ \A n \in DOMAIN queries[q].nodes : ~queries[q].nodes[n].is_stub
        /\ root_node(queries[q]).exc = "ValueError"

\* every parent and child link of a Query names a node of its own map
LinksWithinQuery ==
    \A q \in 1..Len(queries) : \A n \in DOMAIN queries[q].nodes :
        /\ queries[q].nodes[n].parent_node # None
              => queries[q].nodes[n].parent_node[1] \in DOMAIN queries[q].nodes
        /\ queries[q].nodes[n].children \subseteq DOMAIN queries[q].nodes

\* C13: a report processed on one Query writes the node map of that Query
\* alone: whenever a step changes a Query, no report for another Query is
\* that step; what it writes is computed from that Query alone; and every
\* parent or child link of a Query names a node of the same Query's map.
C13_AddressesScopedPerQuery ==
    /\ []LinksWithinQuery
    /\ [][event' = None
            => \A q \in 1..Len(queries) :
                  queries'[q] # queries[q]
                     => \A ev \in ScopeEvents :
                           Report(ev)
                              => /\ ev.self = q
                                 /\ queries'[q] =
                                       add_node_from_event(queries[q], ev)]_vars

\* C13 witness: two Queries hold a node at address 1, a child of node 2 in
\* the first and the only node, without parent, in the second
C13_Witness ==
    /\ Len(queries) = 2
    /\ DOMAIN queries[1].nodes = {1, 2}
    /\ queries[1].nodes[1].parent_node = Some(2)
    /\ queries[1].nodes[2].children = {1}
    /\ DOMAIN queries[2].nodes = {1}
    /\ queries[2].nodes[1].parent_node = None
    /\ ~queries[2].nodes[1].is_stub

\* the step handles a TeardownEnter event
IsTeardownEnter(ev) == ev # None /\ ev[1].event_type = DropPortalEnter

\* what a TeardownEnter does whatever it carries: the pending key is the
\* event's key, no key is opened or closed, the history is as it was and
\* only the Query of the event's key may change
SetsPendingOnly(ev, key) ==
    /\ last_portal_key' = Some(key)
    /\ query_cache' = query_cache
    /\ query_history' = query_history
    /\ Len(queries') = Len(queries)
    /\ \A id \in 1..Len(queries) :
          (key \notin DOMAIN query_cache \/ query_cache[key] # id)
             => queries'[id] = queries[id]

\* C14 as claimed: every TeardownEnter sets the pending key to its own key,
\* whether or not the key is open and whatever the pending key was; it
\* merges the fields of the event into the Query of an open key; it removes
\* no key from the cache and appends nothing to the history.
C14_TeardownEnterSetsPending ==
    [][IsTeardownEnter(event')
          => LET ev == event'[1]
                 key == as_tuple(ev.portal_key)
             IN  /\ SetsPendingOnly(ev, key)
                 /\ key \in DOMAIN query_cache
                       => KeepsLastNonEmpty(ev, key)]_vars

\* the pending key is set, and nothing opened, closed or finalized, by
\* every TeardownEnter, also by one that raises
TeardownEnterSetsPendingAlways ==
    [][IsTeardownEnter(event')
          => SetsPendingOnly(event'[1],
                             as_tuple(event'[1].portal_key))]_vars

\* the whole of C14 holds of every TeardownEnter whose two buffers decode
TeardownEnterSetsPendingWhenDecodable ==
    [][(/\ IsTeardownEnter(event')
        /\ CarriedText(event'[1]).ok
        /\ CarriedPath(event'[1]).ok)
          => LET ev == event'[1]
                 key == as_tuple(ev.portal_key)
             IN  /\ SetsPendingOnly(ev, key)
                 /\ key \in DOMAIN query_cache
                       => KeepsLastNonEmpty(ev, key)]_vars

\* the session starts of the script opened the key
Opened(key) ==
    \E i \in 1..Len(script) :
        /\ script[i].event_type = ExecutorStart
        /\ as_tuple(script[i].portal_key) = key
        /\ from_event(script[i]).exc = NoException

\* the script ends with TeardownEnter(k1), TeardownEnter(k2),
\* TeardownReturn(), TeardownReturn() for two distinct keys that were open
OverlapDone(k1, k2) ==
    LET n == Len(script) IN
    /\ n >= 4
    /\ script[n - 3].event_type = DropPortalEnter
    /\ script[n - 2].event_type = DropPortalEnter
    /\ script[n - 1].event_type = DropPortalReturn
    /\ script[n].event_type = DropPortalReturn
    /\ as_tuple(script[n - 3].portal_key) = k1
    /\ as_tuple(script[n - 2].portal_key) = k2
    /\ k1 # k2
    /\ Opened(k1)
    /\ Opened(k2)

\* the two keys of the overlapping teardowns
OverlapKeys == {as_tuple(key) : key \in PortalKeys}

\* C15: after TeardownEnter(k1), TeardownEnter(k2), TeardownReturn(),
\* TeardownReturn() for two distinct open sessions, the history holds the
\* Query of k2 and nothing else, and the Query of k1 is still in the cache
\* and not in the history.
C15_OverlappingTeardownsLoseFirst ==
    \A k1, k2 \in OverlapKeys :
        OverlapDone(k1, k2)
            => /\ Len(query_history) = 1
               /\ queries[query_history[1]].startts = k2[2]
               /\ DOMAIN query_cache = {k1}
               /\ Open(k1).startts = k1[2]
               /\ query_cache[k1] \notin Range(query_history)
               /\ last_portal_key = None

\* C15 witness: the four events were handled for two open sessions
C15_Witness ==
    /\ Len(script) = 6
    /\ \E k1, k2 \in OverlapKeys : OverlapDone(k1, k2)
    /\ Len(query_history) = 1
    /\ Cardinality(DOMAIN query_cache) = 1

\* C16: in every state, a report for a node that is resolved leaves the
\* node map as it is but for the instrumentation of that node, which is the
\* one of the event, whatever the capture holds: no node is created and no
\* parent, children or stub flag changes.
C16_NoRewalkOfResolved ==
    \A ev \in PlanEvents :
        Resolved(queries[ev.self].nodes, ev.planstate_addr)
            => add_node_from_event(queries[ev.self], ev).nodes
                  = [queries[ev.self].nodes
                        EXCEPT ![ev.planstate_addr].instrument =
                                   Some(Instrumentation(ev.instrument))]

\* C16 witness: a resolved node without parent can receive a report whose
\* capture names a node that the map does not hold, and the report creates
\* no node and sets no parent
C16_Witness ==
    \E ev \in PlanEvents :
        LET old == queries[ev.self].nodes
            new == add_node_from_event(queries[ev.self], ev).nodes
        IN  /\ Resolved(old, ev.planstate_addr)
            /\ old[ev.planstate_addr].parent_node = None
            /\ Len(ev.stack_capture) = 2
            /\ ev.stack_capture[2].function_name
                   \in DOMAIN FUNCTION_ARGS_MAPPING
            /\ MappedArg(ev.stack_capture[2]) \notin DOMAIN old
            /\ DOMAIN new = DOMAIN old
            /\ new[ev.planstate_addr].parent_node = None

\* the reports the Query q can receive next for a node that is not
\* resolved, with a capture of the reporting frame and two frames of table
\* functions, the first for another node and the second for a node that is
\* not the first
AncestorReports(q) ==
    {[self |-> q, planstate_addr |-> A, stack_capture |-> <<f0, f1, f2>>,
      instrument |-> [running |-> TRUE, counter |-> NsPerUs]] :
        A \in {a \in Addrs : ~Resolved(queries[q].nodes, a)},
        f0 \in Frames,
        f1 \in {f \in Frames :
                  f.function_name \in DOMAIN FUNCTION_ARGS_MAPPING},
        f2 \in {f \in Frames :
                  f.function_name \in DOMAIN FUNCTION_ARGS_MAPPING}}

\* C17: in every state, a report for a node A that is not resolved, whose
\* capture names the candidate P and then the node G, links A to P; when P
\* is resolved the walk stops there: P gains the child A and nothing else
\* of P, and no other node, changes and none is created; when P is a stub
\* the walk goes on with P, and the frame of G makes G the parent of P.
C17_StopsAtResolvedAncestor ==
    \A q \in 1..Len(queries) : \A ev \in AncestorReports(q) :
        LET A == ev.planstate_addr
            P == MappedArg(ev.stack_capture[2])
            G == MappedArg(ev.stack_capture[3])
            old == queries[q].nodes
            new == add_node_from_event(queries[q], ev).nodes
        IN  (P # A /\ G # P)
               => /\ new[A].parent_node = Some(P)
                  /\ A \in new[P].children
                  /\ IF Resolved(old, P)
                     THEN /\ DOMAIN new = DOMAIN old \cup {A}
                          /\ new[P] = [old[P] EXCEPT !.children =
                                                         @ \cup {A}]
                          /\ \A n \in DOMAIN old \ {A, P} : new[n] = old[n]
                     ELSE /\ new[P].parent_node = Some(G)
                          /\ P \in new[G].children

\* C17 witness: a node A that the map does not hold can be reported with a
\* capture that names a resolved parentless node P and then a node G that
\* the map does not hold; the report leaves P without parent and creates
\* no G
C17_Witness ==
    \E q \in 1..Len(queries) : \E ev \in AncestorReports(q) :
        LET A == ev.planstate_addr
            P == MappedArg(ev.stack_capture[2])
            G == MappedArg(ev.stack_capture[3])
            old == queries[q].nodes
            new == add_node_from_event(queries[q], ev).nodes
        IN  /\ Cardinality({A, P, G}) = 3
            /\ Resolved(old, P)
            /\ old[P].parent_node = None
            /\ A \notin DOMAIN old
            /\ G \notin DOMAIN old
            /\ new[A].parent_node = Some(P)
            /\ new[P].parent_node = None
            /\ G \notin DOMAIN new

\* no frame of the capture after the first one is the frame of a table
\* function for a node other than addr
Unmatched(stack, addr) ==
    \A i \in 2..Len(stack) :
        \/ stack[i].function_name \notin DOMAIN FUNCTION_ARGS_MAPPING
        \/ MappedArg(stack[i]) = addr

\* the report ev with an unmatched capture creates no node but its own and
\* changes no other node; its own node is resolved and keeps its children
UnmatchedTouchesOwnNodeOnly(ev) ==
    LET A == ev.planstate_addr
        old == queries[ev.self].nodes
        new == add_node_from_event(queries[ev.self], ev).nodes
    IN  /\ DOMAIN new = DOMAIN old \cup {A}
        /\ \A n \in DOMAIN old \ {A} : new[n] = old[n]
        /\ ~new[A].is_stub
        /\ new[A].children = IF A \in DOMAIN old THEN old[A].children ELSE {}

\* C18 as claimed: in every state, a report whose capture has, after its
\* first frame, no frame of a table function for another node leaves the
\* reporting node resolved and without parent and creates or changes no
\* other node, whatever the first frame is.
C18_UnmatchedLeavesParentless ==
    \A ev \in PlanEvents :
        Unmatched(ev.stack_capture, ev.planstate_addr)
            => /\ UnmatchedTouchesOwnNodeOnly(ev)
               /\ add_node_from_event(queries[ev.self], ev)
                     .nodes[ev.planstate_addr].parent_node = None

\* C18 as amended: in every state, such a report leaves the reporting node
\* resolved, with the parent it had before the report (none for a node
\* that is new or had none: a placeholder that an earlier walk gave a
\* parent keeps it), and creates or changes no other node, whatever the
\* first frame is.
C18_UnmatchedKeepsParent ==
    \A ev \in PlanEvents :
        Unmatched(ev.stack_capture, ev.planstate_addr)
            => /\ UnmatchedTouchesOwnNodeOnly(ev)
               /\ add_node_from_event(queries[ev.self], ev)
                     .nodes[ev.planstate_addr].parent_node
                     = IF ev.planstate_addr
                             \in DOMAIN queries[ev.self].nodes
                       THEN queries[ev.self]
                               .nodes[ev.planstate_addr].parent_node
                       ELSE None

\* C18 witness: a node that the map does not hold can be reported with a
\* capture whose first frame is the frame of a table function for another
\* node, absent too, followed by a frame of no table function and a frame
\* for the node itself; the report leaves the node alone in the map,
\* resolved and without parent
C18_Witness ==
    \E ev \in PlanEvents :
        LET A == ev.planstate_addr
            old == queries[ev.self].nodes
            new == add_node_from_event(queries[ev.self], ev).nodes
        IN  /\ old = EmptyDict
            /\ Len(ev.stack_capture) = 3
            /\ ev.stack_capture[1].function_name
                   \in DOMAIN FUNCTION_ARGS_MAPPING
            /\ MappedArg(ev.stack_capture[1]) # A
            /\ ev.stack_capture[2].function_name
                   \notin DOMAIN FUNCTION_ARGS_MAPPING
            /\ ev.stack_capture[3].function_name
                   \in DOMAIN FUNCTION_ARGS_MAPPING
            /\ MappedArg(ev.stack_capture[3]) = A
            /\ DOMAIN new = {A}
            /\ new[A].parent_node = None
            /\ ~new[A].is_stub

\* the value a merge leaves for a field: the carried one when it decodes
\* and is not empty, the prior one otherwise
MergedField(carried, prior) ==
    IF carried.ok /\ carried.str # << >> THEN carried.str ELSE prior

\* C19 as claimed: a session event with a query or search-path buffer that
\* is not valid UTF-8 raises nothing out of the handler; on a merge the
\* field of the bad buffer keeps its value and the rest of the event is
\* applied; on a construct the Query is inserted with the field of the bad
\* buffer absent and the rest of the event applied.
C19_DecodeErrorsContained ==
    [][(/\ event' # None
        /\ event'[1].event_type \in SessionTypes
        /\ ~CarriedText(event'[1]).ok \/ ~CarriedPath(event'[1]).ok)
          => LET ev == event'[1]
                 key == as_tuple(ev.portal_key)
                 new == queries'[query_cache'[key]]
             IN  /\ raised' = NoException
                 /\ key \in DOMAIN query_cache
                       => /\ new.text =
                                MergedField(CarriedText(ev), Open(key).text)
                          /\ new.search_path =
                                IF CarriedPath(ev).ok
                                   /\ CarriedPath(ev).str # << >>
                                THEN Some(CarriedPath(ev).str)
                                ELSE Open(key).search_path
                          /\ new.instrument =
                                IF ev.instrument.running
                                THEN Instrumentation(ev.instrument)
                                ELSE Open(key).instrument
                 /\ (key \notin DOMAIN query_cache
                        /\ ev.event_type = ExecutorStart)
                       => /\ key \in DOMAIN query_cache'
                          /\ CarriedText(ev).ok
                                => new.text = CarriedText(ev).str
                          /\ new.search_path =
                                IF CarriedPath(ev).ok
                                   /\ CarriedPath(ev).str # << >>
                                THEN Some(CarriedPath(ev).str)
                                ELSE None
                          /\ new.instrument =
                                Instrumentation(ev.instrument)]_vars

\* a session event raises only when one of its buffers does not decode
RaisesOnlyOnBadBuffer ==
    [][(/\ event' # None
        /\ event'[1].event_type \in SessionTypes
        /\ raised' # NoException)
          => /\ raised' = "UnicodeDecodeError"
             /\ ~CarriedText(event'[1]).ok
                  \/ ~CarriedPath(event'[1]).ok]_vars

\* C20 as claimed: in every state, for all nodes n and p of a Query's node
\* map, n is among the children of p if and only if the parent of n is p.
C20_ParentChildrenSymmetry ==
    \A q \in 1..Len(queries) : \A n, p \in DOMAIN queries[q].nodes :
        n \in queries[q].nodes[p].children
            <=> queries[q].nodes[n].parent_node = Some(p)

\* the half of the symmetry that holds: the parent of a node has the node
\* among its children
ParentHasChild ==
    \A q \in 1..Len(queries) : \A n, p \in DOMAIN queries[q].nodes :
        queries[q].nodes[n].parent_node = Some(p)
            => n \in queries[q].nodes[p].children

\* following parent links from the node n of the map nodes reaches a node
\* without parent within k steps
RECURSIVE ReachesRoot(_, _, _)
ReachesRoot(nodes, n, k) ==
    IF nodes[n].parent_node = None THEN TRUE
    ELSE IF k = 0 THEN FALSE
    ELSE ReachesRoot(nodes, nodes[n].parent_node[1], k - 1)

\* C21 as claimed: in every state, following parent links from any node of
\* a Query's node map reaches a node without parent in finitely many steps
\* (fewer than the number of nodes): the parent relation has no cycle.
C21_ParentRelationAcyclic ==
    \A q \in 1..Len(queries) : \A n \in DOMAIN queries[q].nodes :
        ReachesRoot(queries[q].nodes, n,
                    Cardinality(DOMAIN queries[q].nodes))

====
